---- MODULE Spec2Model ----
(***************************************************************************)
(* Model of the matching / reconciliation engine of the e-fatura           *)
(* conciliador: the automatic matcher, the manual match and the match      *)
(* lifecycle operations of backend/main.py, the session based matcher of   *)
(* backend/app (api/endpoints/matching.py, services/matching_engine.py),   *)
(* the simplified SQLite API (api/endpoints/simple_matching.py,            *)
(* services/sqlite_matching_engine.py), and the matcher of                 *)
(* backend/app/main_simplified.py (app/matching.py, app/database.py).      *)
(*                                                                         *)
(* Spec, SpecRun, SpecSimple and SpecSimplified serve one request at a     *)
(* time; SpecRun adds the stored setting text and the row order of the     *)
(* queries of backend/main.py, SpecSimple the automatic run of the         *)
(* simplified SQLite API. SpecConc and SpecSess let two requests advance   *)
(* one persistence call at a time; SpecSessLive adds that a scheduled      *)
(* background task keeps running. SpecScore applies the scoring functions  *)
(* to pairs of rows.                                                       *)
(*                                                                         *)
(* Amounts are integers in cents, dates are day numbers, confidence scores  *)
(* are integers in units of 1/ConfScale so that every product the code     *)
(* computes in floating point is an exact integer here.                    *)
(***************************************************************************)
EXTENDS Integers, Sequences, FiniteSets, TLC

\* ------------------------------------------------------------------ bounds
MaxMatchId == 2      \* cap on the AUTOINCREMENT id of the matches table
MaxSessions == 2     \* cap on the rows of matching_sessions

EIds == {1, 2}       \* ids of the rows of efatura_records
BIds == {1, 2}       \* ids of the rows of bank_movements
Pids == {1, 2}       \* the requests that may be in progress at the same time
MIds == 1..MaxMatchId
\* ids a request may name: 0 stands for an absent field, 3 for an unknown row
RequestIds == 0..3

RecordStatuses == {"unmatched", "matched", "confirmed"}
valid_statuses == {"proposed", "confirmed", "rejected"}
Thresholds == {70, 95}
APIs == {"main", "supa", "simple"}

VARIABLES
    api,        \* the application the state belongs to: backend/main.py, the
                \* session API of backend/app, or its simplified SQLite API
    efatura,    \* efatura_records: id -> row
    bank,       \* bank_movements: id -> row
    matches,    \* matches / matching_results: set of rows
    nextId,     \* next AUTOINCREMENT id of the matches table
    threshold,  \* settings['confidence_threshold']
    sessions,   \* matching_sessions: the status of each session, by id
    lastOp,     \* the last request served and what it returned
    procs       \* the requests in progress: their position and local variables

vars == <<api, efatura, bank, matches, nextId, threshold, sessions, lastOp, procs>>

\* ----------------------------------------------------------------- helpers
Abs(x) == IF x < 0 THEN -x ELSE x

RECURSIVE SeqOfSet(_)
\* the rows of a table scan, in rowid order
SeqOfSet(S) ==
    IF S = {} THEN << >>
    ELSE LET m == CHOOSE x \in S : \A y \in S : x <= y
         IN  <<m>> \o SeqOfSet(S \ {m})

Range(s) == {s[i] : i \in DOMAIN s}

\* the supplier token a bank description or supplier name carries
Token(s) ==
    CASE s \in {"acme", "trf acme", "acme FT1"} -> "acme"
      [] s \in {"bolt", "trf bolt"} -> "bolt"
      [] OTHER -> s

\* thefuzz.fuzz.partial_ratio on the strings of the model: 100 when one string
\* contains the other, 0 when they share no character
PartialRatio(a, b) == IF Token(a) = Token(b) THEN 100 ELSE 0

\* dict.get(field) is truthy: the row has the field and it is not empty
Has(row, field) == field \in DOMAIN row /\ row[field] # ""

\* Python's "needle in hay" on the references and descriptions of the model
Contains(hay, needle) ==
    \/ needle = ""
    \/ hay = needle
    \/ hay \in {"pag FT1", "acme FT1"} /\ needle = "FT1"
    \/ hay = "acme FT1" /\ needle = "acme"

\* removal of the bank prefixes ('dd ', 'trf ', 'transf ', 'trans ', ...)
StripPrefix(d) ==
    CASE d = "trf bolt" -> "bolt"
      [] d = "trf acme" -> "acme"
      [] OTHER -> d

ConfScale == 23000 * 50

\* ------------------------------------------------ backend/main.py scoring
DaysDiff(e, b) == Abs(e.document_date - b.movement_date)

\* abs(float(efatura['total_amount']) - abs(float(bank['amount']))), in cents
AmountDiff(e, b) == Abs(e.total_amount - Abs(b.amount))

calculate_match_confidence_efatura(e, b) ==
    LET d == DaysDiff(e, b)
        c == IF d = 0 THEN ConfScale
             ELSE IF d <= 7 THEN (ConfScale * 95) \div 100
             ELSE IF d <= 30 THEN (2290 - 15 * d) * 500
             ELSE ConfScale
        name_match ==
            /\ b.description # ""
            /\ e.supplier_name # ""
            /\ PartialRatio(e.supplier_name, StripPrefix(b.description)) > 80
    IN  IF name_match THEN c ELSE (c * 9) \div 10

calculate_match_confidence_bank(b, e) ==
    LET d == DaysDiff(e, b)
        c == IF d > 30 THEN 0
             ELSE IF d > 5 THEN 4600 * (265 - 3 * d)
             ELSE IF d > 0 THEN 11500 * (100 - 6 * d)
             ELSE ConfScale
    IN  IF d > 30 THEN 0
        ELSE IF e.supplier_name # "" /\ b.description # ""
             THEN (c * (100 + PartialRatio(StripPrefix(b.description), e.supplier_name))) \div 200
             ELSE c

\* the hard-coded minimum of the bank-driven pass, in percent
MinBankConfidence == 70

\* confidence >= percent / 100
AtLeast(conf, percent) == conf * 100 >= percent * ConfScale

\* --------------------------------------------- backend/main.py persistence
\* UNIQUE(efatura_id, bank_id) of the matches table
UniqueViolation(ms, e, b) == \E r \in ms : r.efatura_id = e /\ r.bank_id = b

MatchRow(id, e, b, conf, st, by) ==
    [id |-> id, efatura_id |-> e, bank_id |-> b, confidence_score |-> conf,
     status |-> st, run |-> by]

SetStatus(tbl, id, st) ==
    IF id \in DOMAIN tbl THEN [tbl EXCEPT ![id].status = st] ELSE tbl

Unmatched(tbl) == {i \in DOMAIN tbl : tbl[i].status = "unmatched"}

\* ------------------------------------- backend/main.py run_auto_match
RunAcc(ef, bk, ms, nid) ==
    [ef |-> ef, bk |-> bk, ms |-> ms, nid |-> nid, matched_banks |-> {},
     matches_found |-> 0, skipped_multiple_matches |-> 0, skipped_no_matches |-> 0,
     created |-> {}, ambiguous |-> {}]

\* the INSERT and the two UPDATEs of one accepted pair
CommitPair(acc, e, b, conf) ==
    [acc EXCEPT !.ms = @ \cup {MatchRow(acc.nid, e, b, conf, "proposed", "auto")},
                !.nid = @ + 1,
                !.ef = SetStatus(@, e, "matched"),
                !.bk = SetStatus(@, b, "matched"),
                !.matches_found = @ + 1,
                !.created = @ \cup {<<e, b>>}]

\* (for the record of the run) at least two of the candidates of invoice e
\* reach the confidence threshold
Tied(ef, bk, e, candidates, thr) ==
    Cardinality({b \in Range(candidates) :
                    AtLeast(calculate_match_confidence_efatura(ef[e], bk[b]), thr)}) >= 2

\* a faulty choice, which looks for candidates among all bank movements and
\* not only among those read as 'unmatched'
FirstPassChoice_AllBanks(ef, bk, e, bank_movements, matched_banks, thr) ==
    LET potential_matches ==
            SelectSeq(SeqOfSet(DOMAIN bk),
                      LAMBDA b : /\ b \notin matched_banks
                                 /\ AmountDiff(ef[e], bk[b]) < 1
                                 /\ DaysDiff(ef[e], bk[b]) <= 30)
        none == [kind |-> "none", bank |-> 0, confidence |-> 0, tied |-> FALSE]
    IN  IF Len(potential_matches) > 1 THEN [none EXCEPT !.kind = "multiple"]
        ELSE IF Len(potential_matches) = 0 THEN none
        ELSE LET b == potential_matches[1]
                 confidence == calculate_match_confidence_efatura(ef[e], bk[b])
             IN  IF AtLeast(confidence, thr)
                 THEN [none EXCEPT !.kind = "pair", !.bank = b, !.confidence = confidence]
                 ELSE [none EXCEPT !.kind = "low"]

\* what the invoice-driven loop decides for invoice e from the rows it read
FirstPassChoice(ef, bk, e, bank_movements, matched_banks, thr) ==
    LET potential_matches ==
            SelectSeq(bank_movements,
                      LAMBDA b : /\ b \notin matched_banks
                                 /\ AmountDiff(ef[e], bk[b]) < 1
                                 /\ DaysDiff(ef[e], bk[b]) <= 30)
        none == [kind |-> "none", bank |-> 0, confidence |-> 0, tied |-> FALSE]
    IN  IF Len(potential_matches) > 1
        THEN [none EXCEPT !.kind = "multiple",
                          !.tied = Tied(ef, bk, e, potential_matches, thr)]
        ELSE IF Len(potential_matches) = 0 THEN none
        ELSE LET b == potential_matches[1]
                 confidence == calculate_match_confidence_efatura(ef[e], bk[b])
             IN  IF AtLeast(confidence, thr)
                 THEN [none EXCEPT !.kind = "pair", !.bank = b, !.confidence = confidence]
                 ELSE [none EXCEPT !.kind = "low"]

\* one iteration of the invoice-driven loop
FirstPassStep(acc, e, bank_movements, thr) ==
    LET c == FirstPassChoice(acc.ef, acc.bk, e, bank_movements, acc.matched_banks, thr)
    IN  CASE c.kind = "multiple" ->
                [acc EXCEPT !.skipped_multiple_matches = @ + 1,
                            !.ambiguous = @ \cup (IF c.tied THEN {e} ELSE {})]
          [] c.kind = "none" -> [acc EXCEPT !.skipped_no_matches = @ + 1]
          [] c.kind = "low" -> acc
          [] c.kind = "pair" ->
                IF UniqueViolation(acc.ms, e, c.bank) THEN acc
                ELSE [CommitPair(acc, e, c.bank, c.confidence)
                          EXCEPT !.matched_banks = @ \cup {c.bank}]

RECURSIVE FirstPass(_, _, _, _, _)
FirstPass(acc, efatura_records, bank_movements, thr, i) ==
    IF i > Len(efatura_records) THEN acc
    ELSE FirstPass(FirstPassStep(acc, efatura_records[i], bank_movements, thr),
                   efatura_records, bank_movements, thr, i + 1)

\* what the bank-driven loop decides for bank movement b; remaining_efatura is
\* the list read before the loop, whose rows keep the status they were read with
SecondPassChoice(ef, bk, b, remaining_efatura) ==
    LET potential_matches ==
            SelectSeq(remaining_efatura,
                      LAMBDA e : /\ ~(AmountDiff(ef[e], bk[b]) > 1)
                                 /\ ~(DaysDiff(ef[e], bk[b]) > 30)
                                 /\ AtLeast(calculate_match_confidence_bank(bk[b], ef[e]),
                                            MinBankConfidence))
        none == [kind |-> "none", efatura |-> 0, confidence |-> 0]
    IN  IF Len(potential_matches) > 1 THEN [none EXCEPT !.kind = "multiple"]
        ELSE IF Len(potential_matches) = 0 THEN none
        ELSE [none EXCEPT !.kind = "pair", !.efatura = potential_matches[1],
                          !.confidence = calculate_match_confidence_bank(
                                             bk[b], ef[potential_matches[1]])]

\* one iteration of the bank-driven loop
SecondPassStep(acc, b, remaining_efatura) ==
    LET c == SecondPassChoice(acc.ef, acc.bk, b, remaining_efatura)
    IN  CASE c.kind = "multiple" -> [acc EXCEPT !.skipped_multiple_matches = @ + 1]
          [] c.kind = "none" -> [acc EXCEPT !.skipped_no_matches = @ + 1]
          [] c.kind = "pair" ->
                IF UniqueViolation(acc.ms, c.efatura, b) THEN acc
                ELSE CommitPair(acc, c.efatura, b, c.confidence)

RECURSIVE SecondPass(_, _, _, _)
SecondPass(acc, remaining_banks, remaining_efatura, i) ==
    IF i > Len(remaining_banks) THEN acc
    ELSE SecondPass(SecondPassStep(acc, remaining_banks[i], remaining_efatura),
                    remaining_banks, remaining_efatura, i + 1)

\* the whole of run_auto_match on the tables (ef, bk, ms)
run_auto_match(ef, bk, ms, nid, thr) ==
    LET efatura_records == SeqOfSet(Unmatched(ef))
        bank_movements == SeqOfSet(Unmatched(bk))
        p1 == FirstPass(RunAcc(ef, bk, ms, nid), efatura_records, bank_movements, thr, 1)
        remaining_efatura == SeqOfSet(Unmatched(p1.ef))
        remaining_banks == SeqOfSet(Unmatched(p1.bk))
        p2 == SecondPass(p1, remaining_banks, remaining_efatura, 1)
    IN  [acc |-> p2,
         read_efatura |-> Range(efatura_records),
         read_bank |-> Range(bank_movements),
         efatura_unmatched |-> Len(efatura_records) - p2.matches_found,
         bank_unmatched |-> Len(bank_movements) - p2.matches_found]

\* ------------------------- backend/app/services/matching_engine.py scoring
\* MatchingParameters with its defaults; amount_tolerance_percent in 1/10000
DefaultParams ==
    [date_tolerance_days |-> 3, amount_tolerance_bp |-> 100,
     description_min_similarity |-> 70, use_reference_matching |-> TRUE]

\* the parameters a POST /start may carry: the defaults, and the lower end of
\* date_tolerance_days (Field(3, ge=0, le=30))
SessionParams == {DefaultParams, [DefaultParams EXCEPT !.date_tolerance_days = 0]}

\* scores are integers in units of 1/(1000 * ScoreUnit)
ScoreUnit == 2 * 30
ScoreOne == 1000 * ScoreUnit

\* calculate_match_score of services/matching_engine.py; the rows of the model
\* carry no supplier_nif, and only the rows of the scoring runs carry a
\* document_number or a reference. max_score is the sum of the four weights. With
\* date_tolerance_days = 0 and equal dates the date term divides by zero:
\* raises is TRUE and the call returns nothing.
calculate_match_score(e, b, params) ==
    LET date_diff == DaysDiff(e, b)
        date_matched == date_diff <= params.date_tolerance_days
        raises == date_matched /\ params.date_tolerance_days = 0
        date_score == IF date_matched /\ ~raises
                      THEN (300 * ScoreUnit * (params.date_tolerance_days - date_diff))
                               \div params.date_tolerance_days
                      ELSE 0
        amount_diff == AmountDiff(e, b)
        amount_tolerance == (e.total_amount * params.amount_tolerance_bp) \div 10000
        amount_matched == amount_diff <= amount_tolerance
        amount_score == IF ~amount_matched THEN 0
                        ELSE IF amount_diff = 0 THEN 400 * ScoreUnit
                        ELSE (400 * ScoreUnit * (amount_tolerance - amount_diff))
                                 \div amount_tolerance
        description_similarity ==
            IF e.supplier_name # "" /\ b.description # ""
            THEN PartialRatio(e.supplier_name, b.description) ELSE 0
        description_matched == description_similarity >= params.description_min_similarity
        description_score == IF description_matched
                             THEN 2 * ScoreUnit * description_similarity ELSE 0
        reference_matched ==
            /\ params.use_reference_matching
            /\ Has(e, "document_number")
            /\ Has(b, "reference")
            /\ Contains(b.reference, e.document_number)
        reference_score == IF reference_matched THEN 100 * ScoreUnit ELSE 0
    IN  [score |-> date_score + amount_score + description_score + reference_score,
         raises |-> raises,
         date_matched |-> date_matched, amount_matched |-> amount_matched,
         description_matched |-> description_matched,
         reference_matched |-> reference_matched]

\* some call of calculate_match_score in the inner loop for invoice e raises
ScoreRaises(ef, bk, e, bank_movements, params) ==
    \E i \in DOMAIN bank_movements :
        calculate_match_score(ef[e], bk[bank_movements[i]], params).raises

\* the best bank movement for one invoice: the first of the list whose score
\* is strictly above every earlier one and at least 0.5; 0 when there is none
RECURSIVE BestMatch(_, _, _, _, _, _, _)
BestMatch(ef, bk, e, bank_movements, params, i, best) ==
    IF i > Len(bank_movements) THEN best
    ELSE LET b == bank_movements[i]
             score == calculate_match_score(ef[e], bk[b], params).score
         IN  BestMatch(ef, bk, e, bank_movements, params, i + 1,
                       IF score > best.score /\ score * 2 >= ScoreOne
                       THEN [bank |-> b, score |-> score] ELSE best)

\* the matching_method run_matching_process stores with a score
matching_method(score) == IF score * 100 < 95 * ScoreOne THEN "fuzzy" ELSE "exact"

RemoveFirst(seq, x) == SelectSeq(seq, LAMBDA y : y # x)

\* the loop of run_matching_process from invoice i on; acc.banks is the list
\* bank_movements, which loses every bank movement that gets matched
RECURSIVE MatchingLoop(_, _, _, _, _)
MatchingLoop(acc, efatura_records, params, session, i) ==
    IF i > Len(efatura_records) THEN acc
    ELSE LET e == efatura_records[i]
             best == BestMatch(acc.ef, acc.bk, e, acc.banks, params, 1,
                               [bank |-> 0, score |-> 0])
         IN  MatchingLoop(
                 IF best.bank = 0 THEN acc
                 ELSE [acc EXCEPT
                         !.ms = @ \cup {MatchRow(acc.nid, e, best.bank, best.score,
                                                 "proposed", session)},
                         !.nid = @ + 1,
                         !.ef = SetStatus(@, e, "matched"),
                         !.bk = SetStatus(@, best.bank, "matched"),
                         !.banks = RemoveFirst(@, best.bank),
                         !.matches_created = @ + 1,
                         !.created = @ \cup {<<e, best.bank>>}],
                 efatura_records, params, session, i + 1)

\* run_matching_process when nothing else runs between its persistence calls
run_matching_process(ef, bk, ms, nid, params, session) ==
    LET efatura_records == SeqOfSet(Unmatched(ef))
        bank_movements == SeqOfSet(Unmatched(bk))
    IN  MatchingLoop([ef |-> ef, bk |-> bk, ms |-> ms, nid |-> nid,
                      banks |-> bank_movements, matches_created |-> 0, created |-> {}],
                     efatura_records, params, session, 1)

\* ------------------------------------------------------------ the requests
NoOp ==
    [op |-> "none", code |-> 0, matches_found |-> 0, skipped_multiple_matches |-> 0,
     created |-> {}, ambiguous |-> {}, efatura_processed |-> 0, visited |-> 0,
     errors |-> {}]

EfaturaRow(d, a, n) ==
    [document_date |-> d, total_amount |-> a, supplier_name |-> n, status |-> "unmatched"]

BankRow(d, a, n) ==
    [movement_date |-> d, amount |-> a, description |-> n, status |-> "unmatched"]

\* the uploads the model starts from: two invoices of 100.00 of one supplier
\* and two bank outflows. In order: two equal movements; a movement and a
\* transfer to somebody else; such a transfer and a movement 30 days later; two
\* invoices of the same day with one movement of 100.00 and one of 102.00.
Datasets ==
    {[efatura |-> <<EfaturaRow(0, 10000, "acme"), EfaturaRow(40, 10000, "acme")>>,
      bank |-> <<BankRow(0, -10000, "acme"), BankRow(0, -10000, "acme")>>],
     [efatura |-> <<EfaturaRow(0, 10000, "acme"), EfaturaRow(40, 10000, "acme")>>,
      bank |-> <<BankRow(0, -10000, "acme"), BankRow(0, -10000, "trf bolt")>>],
     [efatura |-> <<EfaturaRow(0, 10000, "acme"), EfaturaRow(40, 10000, "acme")>>,
      bank |-> <<BankRow(0, -10000, "trf bolt"), BankRow(30, -10000, "acme")>>],
     [efatura |-> <<EfaturaRow(0, 10000, "acme"), EfaturaRow(0, 10000, "acme")>>,
      bank |-> <<BankRow(0, -10000, "acme"), BankRow(0, -10200, "acme")>>]}

\* a request slot with nothing in progress, and the local variables of a handler
Idle ==
    [kind |-> "none", pc |-> "idle", code |-> 0, efatura_id |-> 0, bank_id |-> 0,
     found_efatura |-> FALSE, thr |-> 0, pass |-> 0, i |-> 0, confidence |-> 0,
     efatura_records |-> << >>, bank_movements |-> << >>,
     remaining_efatura |-> << >>, remaining_banks |-> << >>,
     matched_banks |-> {}, matches_found |-> 0, session |-> 0,
     params |-> DefaultParams]

Init ==
    /\ procs = [p \in Pids |-> Idle]
    /\ api \in APIs
    /\ \E d \in Datasets : efatura = d.efatura /\ bank = d.bank
    /\ matches = {}
    /\ nextId = 1
    /\ threshold = 70
    /\ sessions = << >>
    /\ lastOp = NoOp

\* POST /api/v1/matching/auto-match
AutoMatch ==
    /\ api = "main"
    /\ LET r == run_auto_match(efatura, bank, matches, nextId, threshold)
       IN  /\ r.acc.nid <= MaxMatchId + 1
           /\ efatura' = r.acc.ef
           /\ bank' = r.acc.bk
           /\ matches' = r.acc.ms
           /\ nextId' = r.acc.nid
           /\ lastOp' = [NoOp EXCEPT !.op = "run_auto_match", !.code = 200,
                                     !.matches_found = r.acc.matches_found,
                                     !.skipped_multiple_matches = r.acc.skipped_multiple_matches,
                                     !.created = r.acc.created,
                                     !.ambiguous = r.acc.ambiguous]
    /\ UNCHANGED <<procs, api, threshold, sessions>>

\* a faulty cascade, which forgets the bank movement
RejectCascade_EfaturaOnly(ef, bk, match) ==
    [ef |-> SetStatus(ef, match.efatura_id, "unmatched"), bk |-> bk]

\* the two UPDATEs that follow a rejection: both linked records go back to
\* 'unmatched'
RejectCascade(ef, bk, match) ==
    [ef |-> SetStatus(ef, match.efatura_id, "unmatched"),
     bk |-> SetStatus(bk, match.bank_id, "unmatched")]

\* PUT /api/v1/matches/{match_id}/status
UpdateMatchStatus(match_id, new_status) ==
    /\ api = "main"
    /\ IF new_status \notin valid_statuses
       THEN /\ lastOp' = [NoOp EXCEPT !.op = "update_match_status", !.code = 400]
            /\ UNCHANGED <<efatura, bank, matches>>
       ELSE LET updated == {IF r.id = match_id THEN [r EXCEPT !.status = new_status] ELSE r
                            : r \in matches}
                match == {r \in updated : r.id = match_id}
            IN  /\ matches' = updated
                /\ IF new_status = "rejected" /\ match # {}
                   THEN LET c == RejectCascade(efatura, bank, CHOOSE x \in match : TRUE)
                        IN  efatura' = c.ef /\ bank' = c.bk
                   ELSE UNCHANGED <<efatura, bank>>
                /\ lastOp' = [NoOp EXCEPT !.op = "update_match_status", !.code = 200]
    /\ UNCHANGED <<procs, api, nextId, threshold, sessions>>

\* a faulty check, which never looks at the bank movement's status
ManualMatchCheck_NoBank(ef, bk, efatura_id, bank_id) ==
    IF efatura_id = 0 \/ bank_id = 0 THEN 400
    ELSE IF efatura_id \notin Unmatched(ef) THEN 404
    ELSE 200

\* the checks create_manual_match makes before it writes: both ids given,
\* both rows found with status 'unmatched'
ManualMatchCheck(ef, bk, efatura_id, bank_id) ==
    IF efatura_id = 0 \/ bank_id = 0 THEN 400
    ELSE IF efatura_id \notin Unmatched(ef) THEN 404
    ELSE IF bank_id \notin Unmatched(bk) THEN 404
    ELSE 200

\* POST /api/v1/matches
CreateManualMatch(efatura_id, bank_id) ==
    /\ api = "main"
    /\ nextId <= MaxMatchId
    /\ LET fail(c) == /\ lastOp' = [NoOp EXCEPT !.op = "create_manual_match", !.code = c]
                      /\ UNCHANGED <<efatura, bank, matches, nextId>>
           checked == ManualMatchCheck(efatura, bank, efatura_id, bank_id)
       IN  IF checked # 200 THEN fail(checked)
           ELSE IF UniqueViolation(matches, efatura_id, bank_id) THEN fail(500)
           ELSE /\ matches' = matches \cup
                        {MatchRow(nextId, efatura_id, bank_id, ConfScale, "confirmed", "manual")}
                /\ nextId' = nextId + 1
                /\ efatura' = SetStatus(efatura, efatura_id, "matched")
                /\ bank' = SetStatus(bank, bank_id, "matched")
                /\ lastOp' = [NoOp EXCEPT !.op = "create_manual_match", !.code = 200]
    /\ UNCHANGED <<procs, api, threshold, sessions>>

\* DELETE /api/v1/matches/{match_id}
DeleteMatch(match_id) ==
    /\ api = "main"
    /\ LET match == {r \in matches : r.id = match_id}
       IN  IF match = {}
           THEN /\ lastOp' = [NoOp EXCEPT !.op = "delete_match", !.code = 404]
                /\ UNCHANGED <<efatura, bank, matches>>
           ELSE LET r == CHOOSE x \in match : TRUE
                IN  /\ matches' = matches \ match
                    /\ efatura' = SetStatus(efatura, r.efatura_id, "unmatched")
                    /\ bank' = SetStatus(bank, r.bank_id, "unmatched")
                    /\ lastOp' = [NoOp EXCEPT !.op = "delete_match", !.code = 200]
    /\ UNCHANGED <<procs, api, nextId, threshold, sessions>>

\* PUT /api/v1/settings/confidence_threshold
UpdateSetting(value) ==
    /\ api = "main"
    /\ threshold' = value
    /\ lastOp' = [NoOp EXCEPT !.op = "update_setting", !.code = 200]
    /\ UNCHANGED <<procs, api, efatura, bank, matches, nextId, sessions>>

NextMain ==
    \/ AutoMatch
    \/ \E m \in MIds, s \in valid_statuses \cup {"archived"} : UpdateMatchStatus(m, s)
    \/ \E e \in RequestIds, b \in RequestIds : CreateManualMatch(e, b)
    \/ \E m \in MIds : DeleteMatch(m)
    \/ \E v \in Thresholds : UpdateSetting(v)

\* POST /start followed by its background task, with no other request between
\* the persistence calls of run_matching_process
StartMatchingSession(params) ==
    /\ api = "supa"
    /\ Len(sessions) < MaxSessions
    /\ LET session_id == Len(sessions) + 1
           r == run_matching_process(efatura, bank, matches, nextId, params, session_id)
       IN  /\ r.nid <= MaxMatchId + 1
           /\ efatura' = r.ef
           /\ bank' = r.bk
           /\ matches' = r.ms
           /\ nextId' = r.nid
           /\ sessions' = Append(sessions, "completed")
           /\ lastOp' = [NoOp EXCEPT !.op = "run_matching_process", !.code = 200,
                                     !.matches_found = r.matches_created,
                                     !.created = r.created]
    /\ UNCHANGED <<procs, api, threshold>>

\* PUT /results/{result_id}/confirm
ConfirmMatchingResult(result_id) ==
    /\ api = "supa"
    /\ LET result == {r \in matches : r.id = result_id}
       IN  IF result = {}
           THEN /\ lastOp' = [NoOp EXCEPT !.op = "confirm_matching_result", !.code = 404]
                /\ UNCHANGED <<efatura, bank, matches>>
           ELSE LET match_data == CHOOSE x \in result : TRUE
                IN  /\ matches' = (matches \ result) \cup
                                      {[match_data EXCEPT !.status = "confirmed"]}
                    /\ efatura' = SetStatus(efatura, match_data.efatura_id, "confirmed")
                    /\ bank' = SetStatus(bank, match_data.bank_id, "confirmed")
                    /\ lastOp' = [NoOp EXCEPT !.op = "confirm_matching_result", !.code = 200]
    /\ UNCHANGED <<procs, api, nextId, threshold, sessions>>

\* PUT /results/{result_id}/reject
RejectMatchingResult(result_id) ==
    /\ api = "supa"
    /\ LET result == {r \in matches : r.id = result_id}
       IN  IF result = {}
           THEN /\ lastOp' = [NoOp EXCEPT !.op = "reject_matching_result", !.code = 404]
                /\ UNCHANGED <<efatura, bank, matches>>
           ELSE LET match_data == CHOOSE x \in result : TRUE
                IN  /\ matches' = (matches \ result) \cup
                                      {[match_data EXCEPT !.status = "rejected"]}
                    /\ efatura' = SetStatus(efatura, match_data.efatura_id, "unmatched")
                    /\ bank' = SetStatus(bank, match_data.bank_id, "unmatched")
                    /\ lastOp' = [NoOp EXCEPT !.op = "reject_matching_result", !.code = 200]
    /\ UNCHANGED <<procs, api, nextId, threshold, sessions>>

NextSupa ==
    \/ StartMatchingSession(DefaultParams)
    \/ \E m \in MIds : ConfirmMatchingResult(m)
    \/ \E m \in MIds : RejectMatchingResult(m)

\* ------------------- backend/app simplified API (api/endpoints/simple_matching.py)
\* SimplifiedMatchingEngine() with its default tolerances
SimpleDateToleranceDays == 3
SimpleAmountTolerancePct == 1

\* SimplifiedMatchingEngine.calculate_match_score, in thousandths: 40% date
\* proximity, 40% amount proximity (on the signed bank amount), rounded to three
\* decimals, 20% for a reference contained in the other (only the rows of the
\* scoring runs carry a reference)
SimpleScore(e, b) ==
    LET d == DaysDiff(e, b)
        date_num == IF d >= SimpleDateToleranceDays THEN 0
                    ELSE 400 * (SimpleDateToleranceDays - d)
        amount_diff == Abs(e.total_amount - b.amount)
        left == e.total_amount * SimpleAmountTolerancePct - 100 * amount_diff
        amount_num == IF e.total_amount > 0 /\ left > 0 THEN 400 * left ELSE 0
        den == SimpleDateToleranceDays * e.total_amount * SimpleAmountTolerancePct
        num == date_num * e.total_amount * SimpleAmountTolerancePct
                   + amount_num * SimpleDateToleranceDays
        reference_score ==
            IF /\ Has(e, "reference")
               /\ Has(b, "reference")
               /\ (Contains(b.reference, e.reference) \/ Contains(e.reference, b.reference))
            THEN 200 ELSE 0
    IN  reference_score +
        (IF e.total_amount > 0 THEN (2 * num + den) \div (2 * den)
         ELSE (2 * date_num + SimpleDateToleranceDays) \div (2 * SimpleDateToleranceDays))

\* the row create_match inserts; this matches table has no status column, the
\* status field carries its match_type
SimpleMatchRow(id, e, b, score) ==
    MatchRow(id, e, b, score, IF score >= 800 THEN "automatic" ELSE "suggested", "simple")

\* POST /manual-match
SimpleCreateManualMatch(efatura_id, bank_movement_id) ==
    /\ api = "simple"
    /\ nextId <= MaxMatchId
    /\ LET fail(c) == /\ lastOp' = [NoOp EXCEPT !.op = "create_manual_match", !.code = c]
                      /\ UNCHANGED <<efatura, bank, matches, nextId>>
       IN  IF efatura_id \notin Unmatched(efatura) THEN fail(404)
           ELSE IF bank_movement_id \notin Unmatched(bank) THEN fail(404)
           ELSE IF UniqueViolation(matches, efatura_id, bank_movement_id) THEN fail(500)
           ELSE /\ matches' = matches \cup
                        {SimpleMatchRow(nextId, efatura_id, bank_movement_id,
                                        SimpleScore(efatura[efatura_id],
                                                    bank[bank_movement_id]))}
                /\ nextId' = nextId + 1
                /\ efatura' = SetStatus(efatura, efatura_id, "matched")
                /\ bank' = SetStatus(bank, bank_movement_id, "matched")
                /\ lastOp' = [NoOp EXCEPT !.op = "create_manual_match", !.code = 200]
    /\ UNCHANGED <<procs, api, threshold, sessions>>

\* DELETE /match/{match_id}
SimpleDeleteMatch(match_id) ==
    /\ api = "simple"
    /\ LET match == {r \in matches : r.id = match_id}
       IN  IF match = {}
           THEN /\ lastOp' = [NoOp EXCEPT !.op = "delete_match", !.code = 404]
                /\ UNCHANGED <<efatura, bank, matches>>
           ELSE LET r == CHOOSE x \in match : TRUE
                IN  /\ efatura' = SetStatus(efatura, r.efatura_id, "unmatched")
                    /\ bank' = SetStatus(bank, r.bank_id, "unmatched")
                    /\ matches' = matches \ match
                    /\ lastOp' = [NoOp EXCEPT !.op = "delete_match", !.code = 200]
    /\ UNCHANGED <<procs, api, nextId, threshold, sessions>>

NextSimple ==
    \/ \E e \in RequestIds, b \in RequestIds : SimpleCreateManualMatch(e, b)
    \/ \E m \in MIds : SimpleDeleteMatch(m)

Next == NextMain \/ NextSupa \/ NextSimple

Spec == Init /\ [][Next]_vars

\* ------------------------------------- requests that overlap (backend/main.py)
\* Every query() and execute() of backend/database.py opens its own connection
\* and commits on its own: a handler is a sequence of separate persistence
\* calls, and the steps below are those calls, one per step, each with the
\* computation that follows it in the handler.

\* POST /api/v1/matches arrives: the 400 check on the body
ManualBegin(p, efatura_id, bank_id) ==
    /\ api = "main"
    /\ procs[p].pc = "idle"
    /\ procs' = [procs EXCEPT ![p] =
                    IF efatura_id = 0 \/ bank_id = 0
                    THEN [Idle EXCEPT !.kind = "manual", !.pc = "done", !.code = 400]
                    ELSE [Idle EXCEPT !.kind = "manual", !.pc = "q_efatura",
                                      !.efatura_id = efatura_id, !.bank_id = bank_id]]
    /\ UNCHANGED <<api, efatura, bank, matches, nextId, threshold, sessions, lastOp>>

\* SELECT * FROM efatura_records WHERE id = ? AND status = 'unmatched'
ManualQueryEfatura(p) ==
    /\ procs[p].kind = "manual"
    /\ procs[p].pc = "q_efatura"
    /\ procs' = [procs EXCEPT ![p].found_efatura = procs[p].efatura_id \in Unmatched(efatura),
                              ![p].pc = "q_bank"]
    /\ UNCHANGED <<api, efatura, bank, matches, nextId, threshold, sessions, lastOp>>

\* SELECT * FROM bank_movements WHERE id = ? AND status = 'unmatched', and the
\* two 404 checks that follow it
ManualQueryBank(p) ==
    /\ procs[p].kind = "manual"
    /\ procs[p].pc = "q_bank"
    /\ procs' = [procs EXCEPT ![p] =
                    IF ~procs[p].found_efatura \/ procs[p].bank_id \notin Unmatched(bank)
                    THEN [@ EXCEPT !.pc = "done", !.code = 404]
                    ELSE [@ EXCEPT !.pc = "insert"]]
    /\ UNCHANGED <<api, efatura, bank, matches, nextId, threshold, sessions, lastOp>>

\* INSERT INTO matches ... VALUES (?, ?, 1.0, 'confirmed')
ManualInsert(p) ==
    /\ procs[p].kind = "manual"
    /\ procs[p].pc = "insert"
    /\ IF UniqueViolation(matches, procs[p].efatura_id, procs[p].bank_id)
       THEN /\ procs' = [procs EXCEPT ![p].pc = "done", ![p].code = 500]
            /\ UNCHANGED <<matches, nextId>>
       ELSE /\ matches' = matches \cup
                    {MatchRow(nextId, procs[p].efatura_id, procs[p].bank_id, ConfScale,
                              "confirmed", p)}
            /\ nextId' = nextId + 1
            /\ procs' = [procs EXCEPT ![p].pc = "upd_efatura"]
    /\ UNCHANGED <<api, efatura, bank, threshold, sessions, lastOp>>

\* UPDATE efatura_records SET status = 'matched' WHERE id = ?
ManualUpdateEfatura(p) ==
    /\ procs[p].kind = "manual"
    /\ procs[p].pc = "upd_efatura"
    /\ efatura' = SetStatus(efatura, procs[p].efatura_id, "matched")
    /\ procs' = [procs EXCEPT ![p].pc = "upd_bank"]
    /\ UNCHANGED <<api, bank, matches, nextId, threshold, sessions, lastOp>>

\* UPDATE bank_movements SET status = 'matched' WHERE id = ?, and the response
ManualUpdateBank(p) ==
    /\ procs[p].kind = "manual"
    /\ procs[p].pc = "upd_bank"
    /\ bank' = SetStatus(bank, procs[p].bank_id, "matched")
    /\ procs' = [procs EXCEPT ![p].pc = "done", ![p].code = 200]
    /\ UNCHANGED <<api, efatura, matches, nextId, threshold, sessions, lastOp>>

\* POST /api/v1/matching/auto-match arrives: run_auto_match reads the setting
RunBegin(p) ==
    /\ api = "main"
    /\ procs[p].pc = "idle"
    /\ procs' = [procs EXCEPT ![p] =
                    [Idle EXCEPT !.kind = "auto", !.pc = "q_efatura", !.thr = threshold]]
    /\ UNCHANGED <<api, efatura, bank, matches, nextId, threshold, sessions, lastOp>>

\* SELECT * FROM efatura_records WHERE status = 'unmatched'
RunQueryEfatura(p) ==
    /\ procs[p].kind = "auto"
    /\ procs[p].pc = "q_efatura"
    /\ procs' = [procs EXCEPT ![p].efatura_records = SeqOfSet(Unmatched(efatura)),
                              ![p].pc = "q_bank"]
    /\ UNCHANGED <<api, efatura, bank, matches, nextId, threshold, sessions, lastOp>>

\* SELECT * FROM bank_movements WHERE status = 'unmatched'
RunQueryBank(p) ==
    /\ procs[p].kind = "auto"
    /\ procs[p].pc = "q_bank"
    /\ procs' = [procs EXCEPT ![p].bank_movements = SeqOfSet(Unmatched(bank)),
                              ![p].pc = "pass1", ![p].pass = 1, ![p].i = 1]
    /\ UNCHANGED <<api, efatura, bank, matches, nextId, threshold, sessions, lastOp>>

\* one iteration of the invoice-driven loop, up to and including its INSERT
RunFirstPass(p) ==
    /\ procs[p].kind = "auto"
    /\ procs[p].pc = "pass1"
    /\ LET s == procs[p]
       IN  IF s.i > Len(s.efatura_records)
           THEN /\ procs' = [procs EXCEPT ![p].pc = "q_remaining_efatura"]
                /\ UNCHANGED <<matches, nextId>>
           ELSE LET e == s.efatura_records[s.i]
                    c == FirstPassChoice(efatura, bank, e, s.bank_movements,
                                         s.matched_banks, s.thr)
                IN  IF c.kind = "pair" /\ ~UniqueViolation(matches, e, c.bank)
                    THEN /\ matches' = matches \cup
                                {MatchRow(nextId, e, c.bank, c.confidence, "proposed", p)}
                         /\ nextId' = nextId + 1
                         /\ procs' = [procs EXCEPT ![p].pc = "upd_efatura",
                                                   ![p].efatura_id = e,
                                                   ![p].bank_id = c.bank]
                    ELSE /\ procs' = [procs EXCEPT ![p].i = s.i + 1]
                         /\ UNCHANGED <<matches, nextId>>
    /\ UNCHANGED <<api, efatura, bank, threshold, sessions, lastOp>>

\* UPDATE efatura_records SET status = 'matched' WHERE id = ? (either pass)
RunUpdateEfatura(p) ==
    /\ procs[p].kind = "auto"
    /\ procs[p].pc = "upd_efatura"
    /\ efatura' = SetStatus(efatura, procs[p].efatura_id, "matched")
    /\ procs' = [procs EXCEPT ![p].pc = "upd_bank"]
    /\ UNCHANGED <<api, bank, matches, nextId, threshold, sessions, lastOp>>

\* UPDATE bank_movements SET status = 'matched' WHERE id = ? (either pass), then
\* matched_banks.add in the first pass, matches_found += 1 and the next iteration
RunUpdateBank(p) ==
    /\ procs[p].kind = "auto"
    /\ procs[p].pc = "upd_bank"
    /\ bank' = SetStatus(bank, procs[p].bank_id, "matched")
    /\ procs' = [procs EXCEPT
                    ![p].matched_banks = IF procs[p].pass = 1
                                         THEN @ \cup {procs[p].bank_id} ELSE @,
                    ![p].matches_found = @ + 1,
                    ![p].i = @ + 1,
                    ![p].pc = IF procs[p].pass = 1 THEN "pass1" ELSE "pass2"]
    /\ UNCHANGED <<api, efatura, matches, nextId, threshold, sessions, lastOp>>

\* the second SELECT * FROM efatura_records WHERE status = 'unmatched'
RunQueryRemainingEfatura(p) ==
    /\ procs[p].kind = "auto"
    /\ procs[p].pc = "q_remaining_efatura"
    /\ procs' = [procs EXCEPT ![p].remaining_efatura = SeqOfSet(Unmatched(efatura)),
                              ![p].pc = "q_remaining_banks"]
    /\ UNCHANGED <<api, efatura, bank, matches, nextId, threshold, sessions, lastOp>>

\* the second SELECT * FROM bank_movements WHERE status = 'unmatched'
RunQueryRemainingBanks(p) ==
    /\ procs[p].kind = "auto"
    /\ procs[p].pc = "q_remaining_banks"
    /\ procs' = [procs EXCEPT ![p].remaining_banks = SeqOfSet(Unmatched(bank)),
                              ![p].pc = "pass2", ![p].pass = 2, ![p].i = 1]
    /\ UNCHANGED <<api, efatura, bank, matches, nextId, threshold, sessions, lastOp>>

\* one iteration of the bank-driven loop, up to and including its INSERT; after
\* the last one the summary is returned
RunSecondPass(p) ==
    /\ procs[p].kind = "auto"
    /\ procs[p].pc = "pass2"
    /\ LET s == procs[p]
       IN  IF s.i > Len(s.remaining_banks)
           THEN /\ procs' = [procs EXCEPT ![p].pc = "done", ![p].code = 200]
                /\ UNCHANGED <<matches, nextId>>
           ELSE LET b == s.remaining_banks[s.i]
                    c == SecondPassChoice(efatura, bank, b, s.remaining_efatura)
                IN  IF c.kind = "pair" /\ ~UniqueViolation(matches, c.efatura, b)
                    THEN /\ matches' = matches \cup
                                {MatchRow(nextId, c.efatura, b, c.confidence, "proposed", p)}
                         /\ nextId' = nextId + 1
                         /\ procs' = [procs EXCEPT ![p].pc = "upd_efatura",
                                                   ![p].efatura_id = c.efatura,
                                                   ![p].bank_id = b]
                    ELSE /\ procs' = [procs EXCEPT ![p].i = s.i + 1]
                         /\ UNCHANGED <<matches, nextId>>
    /\ UNCHANGED <<api, efatura, bank, threshold, sessions, lastOp>>

InitConc ==
    /\ Init
    /\ api = "main"

NextConc ==
    \E p \in Pids :
        \/ \E e \in RequestIds, b \in RequestIds : ManualBegin(p, e, b)
        \/ ManualQueryEfatura(p)
        \/ ManualQueryBank(p)
        \/ ManualInsert(p)
        \/ ManualUpdateEfatura(p)
        \/ ManualUpdateBank(p)
        \/ RunBegin(p)
        \/ RunQueryEfatura(p)
        \/ RunQueryBank(p)
        \/ RunFirstPass(p)
        \/ RunUpdateEfatura(p)
        \/ RunUpdateBank(p)
        \/ RunQueryRemainingEfatura(p)
        \/ RunQueryRemainingBanks(p)
        \/ RunSecondPass(p)

\* two requests of backend/main.py in progress at the same time
SpecConc == InitConc /\ [][NextConc]_vars

\* ------------------------------------ sessions that overlap (backend/app)
\* start_matching_session and the run_matching_process it schedules, one
\* persistence call per step. Nothing in either function takes a lock or looks
\* for a session of the same org_id that is still 'running'.

\* POST /start: the two counts and the INSERT of the session row
SessionStart(p, params) ==
    /\ api = "supa"
    /\ procs[p].pc = "idle"
    /\ Len(sessions) < MaxSessions
    /\ sessions' = Append(sessions, "running")
    /\ procs' = [procs EXCEPT ![p] =
                    [Idle EXCEPT !.kind = "session", !.pc = "q_efatura",
                                 !.session = Len(sessions) + 1, !.params = params]]
    /\ UNCHANGED <<api, efatura, bank, matches, nextId, threshold, lastOp>>

\* efatura_records with matching_status 'unmatched'
SessionQueryEfatura(p) ==
    /\ procs[p].kind = "session"
    /\ procs[p].pc = "q_efatura"
    /\ procs' = [procs EXCEPT ![p].efatura_records = SeqOfSet(Unmatched(efatura)),
                              ![p].pc = "q_bank"]
    /\ UNCHANGED <<api, efatura, bank, matches, nextId, threshold, sessions, lastOp>>

\* bank_movements with matching_status 'unmatched'
SessionQueryBank(p) ==
    /\ procs[p].kind = "session"
    /\ procs[p].pc = "q_bank"
    /\ procs' = [procs EXCEPT ![p].bank_movements = SeqOfSet(Unmatched(bank)),
                              ![p].pc = "loop", ![p].i = 1]
    /\ UNCHANGED <<api, efatura, bank, matches, nextId, threshold, sessions, lastOp>>

\* one iteration of the loop over the invoices, up to and including the INSERT
\* of its matching result; an exception of the scoring leaves the loop for the
\* handler
SessionLoop(p, params) ==
    /\ procs[p].kind = "session"
    /\ procs[p].pc = "loop"
    /\ LET s == procs[p]
       IN  IF s.i > Len(s.efatura_records)
           THEN /\ procs' = [procs EXCEPT ![p].pc = "finish"]
                /\ UNCHANGED <<matches, nextId>>
           ELSE IF ScoreRaises(efatura, bank, s.efatura_records[s.i], s.bank_movements,
                               params)
           THEN /\ procs' = [procs EXCEPT ![p].pc = "except"]
                /\ UNCHANGED <<matches, nextId>>
           ELSE LET e == s.efatura_records[s.i]
                    best == BestMatch(efatura, bank, e, s.bank_movements, params, 1,
                                      [bank |-> 0, score |-> 0])
                IN  IF best.bank # 0
                    THEN /\ matches' = matches \cup
                                {MatchRow(nextId, e, best.bank, best.score, "proposed",
                                          s.session)}
                         /\ nextId' = nextId + 1
                         /\ procs' = [procs EXCEPT ![p].pc = "upd_efatura",
                                                   ![p].efatura_id = e,
                                                   ![p].bank_id = best.bank]
                    ELSE /\ procs' = [procs EXCEPT ![p].i = s.i + 1]
                         /\ UNCHANGED <<matches, nextId>>
    /\ UNCHANGED <<api, efatura, bank, threshold, sessions, lastOp>>

\* efatura_records.update({"matching_status": "matched"})
SessionUpdateEfatura(p) ==
    /\ procs[p].kind = "session"
    /\ procs[p].pc = "upd_efatura"
    /\ efatura' = SetStatus(efatura, procs[p].efatura_id, "matched")
    /\ procs' = [procs EXCEPT ![p].pc = "upd_bank"]
    /\ UNCHANGED <<api, bank, matches, nextId, threshold, sessions, lastOp>>

\* bank_movements.update({"matching_status": "matched"}), then
\* bank_movements.remove(bank) and matches_created += 1
SessionUpdateBank(p) ==
    /\ procs[p].kind = "session"
    /\ procs[p].pc = "upd_bank"
    /\ bank' = SetStatus(bank, procs[p].bank_id, "matched")
    /\ procs' = [procs EXCEPT
                    ![p].bank_movements = RemoveFirst(@, procs[p].bank_id),
                    ![p].matches_found = @ + 1,
                    ![p].i = @ + 1,
                    ![p].pc = "loop"]
    /\ UNCHANGED <<api, efatura, matches, nextId, threshold, sessions, lastOp>>

\* the update of the session row to 'completed'
SessionFinish(p) ==
    /\ procs[p].kind = "session"
    /\ procs[p].pc = "finish"
    /\ sessions' = [sessions EXCEPT ![procs[p].session] = "completed"]
    /\ procs' = [procs EXCEPT ![p].pc = "done", ![p].code = 200]
    /\ UNCHANGED <<api, efatura, bank, matches, nextId, threshold, lastOp>>

\* a faulty handler, which swallows the exception and leaves the session row
\* as it is
SessionExcept_NoUpdate(p) ==
    /\ procs[p].kind = "session"
    /\ procs[p].pc = "except"
    /\ procs' = [procs EXCEPT ![p].pc = "done", ![p].code = 500]
    /\ UNCHANGED <<api, efatura, bank, matches, nextId, threshold, sessions, lastOp>>

\* except Exception: the update of the session row to 'failed'
SessionExcept(p) ==
    /\ procs[p].kind = "session"
    /\ procs[p].pc = "except"
    /\ sessions' = [sessions EXCEPT ![procs[p].session] = "failed"]
    /\ procs' = [procs EXCEPT ![p].pc = "done", ![p].code = 500]
    /\ UNCHANGED <<api, efatura, bank, matches, nextId, threshold, lastOp>>

InitSess ==
    /\ Init
    /\ api = "supa"

\* the steps of the background task of request p
SessionTask(p) ==
    \/ SessionQueryEfatura(p)
    \/ SessionQueryBank(p)
    \/ SessionLoop(p, procs[p].params)
    \/ SessionUpdateEfatura(p)
    \/ SessionUpdateBank(p)
    \/ SessionFinish(p)
    \/ SessionExcept(p)

NextSess ==
    \E p \in Pids :
        \/ \E params \in SessionParams : SessionStart(p, params)
        \/ SessionTask(p)

\* two matching sessions of one organisation started one after the other
SpecSess == InitSess /\ [][NextSess]_vars

\* the same, where a background task that was scheduled runs on: the task is
\* added by background_tasks.add_task and started when the response has been
\* sent, and nothing in it waits for another request
SpecSessLive == SpecSess /\ \A p \in Pids : WF_vars(SessionTask(p))

\* ------ backend/app/main_simplified.py (app/matching.py, app/database.py)
\* The efatura table of this application names its columns issuer, issue_date
\* and total; the rows of the model keep supplier_name, document_date and
\* total_amount for them. Its tables have no matching status column: a record
\* is unmatched when no matching_results row with a status other than
\* 'rejected' references it.

\* the defaults of calculate_match_score of app/matching.py
tolerance_days == 5
amount_tolerance == 1      \* percent

\* the min_confidence values a request may carry, in thousandths
MinConfidences == {500, 800}

\* ORDER BY leaves the order of rows with equal dates to the query plan: by
\* rowid, or by rowid descending when the date index is walked backwards
TieOrders == {"rowid", "reverse"}

\* the ids of S by date descending (ORDER BY ... DESC)
RECURSIVE OrderByDateDesc(_, _, _)
OrderByDateDesc(S, date, ties) ==
    IF S = {} THEN << >>
    ELSE LET m == CHOOSE x \in S : \A y \in S :
                      \/ date[x] > date[y]
                      \/ date[x] = date[y] /\ (IF ties = "rowid" THEN x <= y ELSE x >= y)
         IN  <<m>> \o OrderByDateDesc(S \ {m}, date, ties)

get_unmatched_efatura(ef, ms, ties) ==
    OrderByDateDesc({e \in DOMAIN ef :
                        ~\E m \in ms : m.efatura_id = e /\ m.status # "rejected"},
                    [e \in DOMAIN ef |-> ef[e].document_date], ties)

get_unmatched_bank_movements(bk, ms, ties) ==
    OrderByDateDesc({b \in DOMAIN bk :
                        ~\E m \in ms : m.bank_id = b /\ m.status # "rejected"},
                    [b \in DOMAIN bk |-> bk[b].movement_date], ties)

\* a faulty scorer, which adds the bonus without the cap at 1.0
matching_calculate_match_score_NoCap(e, b) ==
    LET efatura_amount == Abs(e.total_amount)
        amount_diff == Abs(efatura_amount - Abs(b.amount))
        within == 100 * amount_diff <= efatura_amount * amount_tolerance
        amount_score == IF amount_diff < 1 THEN 400
                        ELSE (400 * (efatura_amount * amount_tolerance - 100 * amount_diff))
                                 \div (efatura_amount * amount_tolerance)
        days_diff == DaysDiff(e, b)
        date_score == IF days_diff = 0 THEN 300
                      ELSE IF days_diff <= tolerance_days
                           THEN (300 * (tolerance_days - days_diff)) \div tolerance_days
                           ELSE 0
        description_score ==
            IF e.supplier_name # "" /\ b.description # ""
            THEN 3 * PartialRatio(e.supplier_name, b.description) ELSE 0
        score == amount_score + date_score + description_score
        bonus == /\ e.supplier_name # "" /\ b.description # ""
                 /\ "invoice" \in DOMAIN e
                 /\ Contains(b.description, e.invoice)
    IN  IF amount_diff >= 1 /\ ~within THEN 0
        ELSE IF bonus THEN score + 100
        ELSE score

\* calculate_match_score of app/matching.py, in thousandths: 40% amount (0 for
\* the whole score when the amounts differ by more than the tolerance), 30%
\* date, 30% description, and a bonus of 10%, capped at 1.0, when the invoice
\* number appears in the bank description (only the rows of the scoring runs
\* carry an invoice number)
matching_calculate_match_score(e, b) ==
    LET efatura_amount == Abs(e.total_amount)
        amount_diff == Abs(efatura_amount - Abs(b.amount))
        within == 100 * amount_diff <= efatura_amount * amount_tolerance
        amount_score == IF amount_diff < 1 THEN 400
                        ELSE (400 * (efatura_amount * amount_tolerance - 100 * amount_diff))
                                 \div (efatura_amount * amount_tolerance)
        days_diff == DaysDiff(e, b)
        date_score == IF days_diff = 0 THEN 300
                      ELSE IF days_diff <= tolerance_days
                           THEN (300 * (tolerance_days - days_diff)) \div tolerance_days
                           ELSE 0
        description_score ==
            IF e.supplier_name # "" /\ b.description # ""
            THEN 3 * PartialRatio(e.supplier_name, b.description) ELSE 0
        score == amount_score + date_score + description_score
        bonus == /\ e.supplier_name # "" /\ b.description # ""
                 /\ "invoice" \in DOMAIN e
                 /\ Contains(b.description, e.invoice)
    IN  IF amount_diff >= 1 /\ ~within THEN 0
        ELSE IF bonus THEN (IF score + 100 <= 1000 THEN score + 100 ELSE 1000)
        ELSE score

\* the row create_match of app/database.py inserts; status defaults to 'proposed'
create_match(id, efatura_id, bank_id, confidence, match_type) ==
    [id |-> id, efatura_id |-> efatura_id, bank_id |-> bank_id,
     confidence_score |-> confidence, match_type |-> match_type,
     status |-> "proposed", run |-> "auto"]

\* the inner loop of run_automatic_matching: the first bank movement not yet
\* used whose score is strictly above every earlier one and at least
\* min_confidence; 0 when there is none
RECURSIVE best_match(_, _, _, _, _, _, _, _)
best_match(ef, bk, e, bank_movements, used_bank_ids, min_confidence, i, best) ==
    IF i > Len(bank_movements) THEN best
    ELSE LET b == bank_movements[i]
             score == matching_calculate_match_score(ef[e], bk[b])
         IN  best_match(ef, bk, e, bank_movements, used_bank_ids, min_confidence, i + 1,
                        IF b \notin used_bank_ids /\ score > best.score
                              /\ score >= min_confidence
                        THEN [bank |-> b, score |-> score] ELSE best)

\* the loop of run_automatic_matching from invoice i on. The INSERT of
\* create_match raises on UNIQUE(efatura_id, bank_movement_id); the only
\* handler is the one around the whole loop, which records the error and
\* returns.
RECURSIVE AutomaticMatchingLoop(_, _, _, _, _, _, _)
AutomaticMatchingLoop(acc, ef, bk, efatura_records, bank_movements, min_confidence, i) ==
    IF i > Len(efatura_records) THEN acc
    ELSE LET e == efatura_records[i]
             best == best_match(ef, bk, e, bank_movements, acc.used_bank_ids,
                                min_confidence, 1, [bank |-> 0, score |-> 0])
             seen == [acc EXCEPT !.visited = @ + 1]
         IN  IF best.bank = 0
             THEN AutomaticMatchingLoop(seen, ef, bk, efatura_records, bank_movements,
                                        min_confidence, i + 1)
             ELSE IF UniqueViolation(acc.ms, e, best.bank)
             THEN [seen EXCEPT !.errors = @ \cup {<<e, best.bank>>}]
             ELSE AutomaticMatchingLoop(
                      [seen EXCEPT
                          !.ms = @ \cup {create_match(acc.nid, e, best.bank, best.score,
                                                      "automatic")},
                          !.nid = @ + 1,
                          !.used_bank_ids = @ \cup {best.bank},
                          !.matches_created = @ + 1,
                          !.created = @ \cup {<<e, best.bank>>}],
                      ef, bk, efatura_records, bank_movements, min_confidence, i + 1)

run_automatic_matching(ef, bk, ms, nid, min_confidence, ties) ==
    LET efatura_records == get_unmatched_efatura(ef, ms, ties)
        bank_movements == get_unmatched_bank_movements(bk, ms, ties)
    IN  AutomaticMatchingLoop(
            [ms |-> ms, nid |-> nid, used_bank_ids |-> {}, matches_created |-> 0,
             efatura_processed |-> Len(efatura_records), visited |-> 0,
             errors |-> {}, created |-> {}],
            ef, bk, efatura_records, bank_movements, min_confidence, 1)

\* POST /api/v1/matching/auto-match of main_simplified.py
auto_match(min_confidence, ties) ==
    /\ api = "main_simplified"
    /\ LET r == run_automatic_matching(efatura, bank, matches, nextId, min_confidence, ties)
       IN  /\ r.nid <= MaxMatchId + 1
           /\ matches' = r.ms
           /\ nextId' = r.nid
           /\ lastOp' = [NoOp EXCEPT !.op = "run_automatic_matching", !.code = 200,
                                     !.matches_found = r.matches_created,
                                     !.created = r.created,
                                     !.efatura_processed = r.efatura_processed,
                                     !.visited = r.visited,
                                     !.errors = r.errors]
    /\ UNCHANGED <<procs, api, efatura, bank, threshold, sessions>>

\* PUT /api/v1/matching/matches/{match_id}/status of main_simplified.py, with
\* update_match_status of app/database.py
update_match(match_id, status) ==
    /\ api = "main_simplified"
    /\ IF status \notin {"confirmed", "rejected", "proposed"}
       THEN /\ lastOp' = [NoOp EXCEPT !.op = "update_match", !.code = 400]
            /\ UNCHANGED matches
       ELSE IF ~\E r \in matches : r.id = match_id
       THEN /\ lastOp' = [NoOp EXCEPT !.op = "update_match", !.code = 404]
            /\ UNCHANGED matches
       ELSE /\ matches' = {IF r.id = match_id THEN [r EXCEPT !.status = status] ELSE r
                           : r \in matches}
            /\ lastOp' = [NoOp EXCEPT !.op = "update_match", !.code = 200]
    /\ UNCHANGED <<procs, api, efatura, bank, nextId, threshold, sessions>>

InitSimplified ==
    /\ procs = [p \in Pids |-> Idle]
    /\ api = "main_simplified"
    /\ \E d \in Datasets : efatura = d.efatura /\ bank = d.bank
    /\ matches = {}
    /\ nextId = 1
    /\ threshold = 70
    /\ sessions = << >>
    /\ lastOp = NoOp

NextSimplified ==
    \/ \E c \in MinConfidences, t \in TieOrders : auto_match(c, t)
    \/ \E m \in MIds \cup {MaxMatchId + 1}, s \in valid_statuses \cup {"archived"} :
           update_match(m, s)

\* the application of main_simplified.py, one request at a time
SpecSimplified == InitSimplified /\ [][NextSimplified]_vars

\* ------------- backend/main.py: the run with its setting and its row order
\* the orders in which a SELECT without ORDER BY may hand back its rows
RowOrders == {"rowid", "reverse"}

Reverse(s) == [i \in 1..Len(s) |-> s[Len(s) + 1 - i]]

\* query("SELECT * FROM ... WHERE status = 'unmatched'")
SelectUnmatched(tbl, order) ==
    IF order = "rowid" THEN SeqOfSet(Unmatched(tbl)) ELSE Reverse(SeqOfSet(Unmatched(tbl)))

\* the values a PUT /api/v1/settings/confidence_threshold may carry, as the
\* text str(value) the settings table keeps
SettingTexts == {"70", "150", "-5", "abc"}

\* float(text) raises ValueError on a text that is not a number
FloatRaises(text) == text \notin {"70", "150", "-5"}

\* float(text), in percent
Float(text) ==
    CASE text = "70" -> 70
      [] text = "150" -> 150
      [] text = "-5" -> 0 - 5

\* run_auto_match on the tables (ef, bk, ms), its four queries returning their
\* rows in the given order
run_auto_match_rows(ef, bk, ms, nid, thr, order) ==
    LET efatura_records == SelectUnmatched(ef, order)
        bank_movements == SelectUnmatched(bk, order)
        p1 == FirstPass(RunAcc(ef, bk, ms, nid), efatura_records, bank_movements, thr, 1)
        remaining_efatura == SelectUnmatched(p1.ef, order)
        remaining_banks == SelectUnmatched(p1.bk, order)
        p2 == SecondPass(p1, remaining_banks, remaining_efatura, 1)
    IN  [acc |-> p2,
         read_efatura |-> Range(efatura_records),
         read_bank |-> Range(bank_movements),
         efatura_unmatched |-> Len(efatura_records) - p2.matches_found,
         bank_unmatched |-> Len(bank_movements) - p2.matches_found]

\* the response of POST /api/v1/matching/auto-match, with what the run read
RunOp(code, r, thr, order) ==
    [op |-> "auto_match", code |-> code, order |-> order, confidence_threshold |-> thr,
     matches_found |-> r.acc.matches_found,
     efatura_unmatched |-> r.efatura_unmatched,
     bank_unmatched |-> r.bank_unmatched,
     skipped_multiple_matches |-> r.acc.skipped_multiple_matches,
     created |-> r.acc.created,
     read_efatura |-> r.read_efatura,
     read_bank |-> r.read_bank]

\* the run that stopped at float(): nothing read, nothing found
NoRun(ms, nid) ==
    [acc |-> RunAcc(<< >>, << >>, ms, nid), read_efatura |-> {}, read_bank |-> {},
     efatura_unmatched |-> 0, bank_unmatched |-> 0]

\* POST /api/v1/matching/auto-match with the threshold read from the settings
RunAutoMatch(order) ==
    /\ api = "main"
    /\ IF FloatRaises(threshold)
       THEN /\ lastOp' = RunOp(500, NoRun(matches, nextId), 0, order)
            /\ UNCHANGED <<efatura, bank, matches, nextId>>
       ELSE LET r == run_auto_match_rows(efatura, bank, matches, nextId,
                                         Float(threshold), order)
            IN  /\ r.acc.nid <= MaxMatchId + 1
                /\ efatura' = r.acc.ef
                /\ bank' = r.acc.bk
                /\ matches' = r.acc.ms
                /\ nextId' = r.acc.nid
                /\ lastOp' = RunOp(200, r, Float(threshold), order)
    /\ UNCHANGED <<procs, api, threshold, sessions>>

\* PUT /api/v1/settings/confidence_threshold
UpdateSettingText(text) ==
    /\ api = "main"
    /\ threshold' = text
    /\ lastOp' = [NoOp EXCEPT !.op = "update_setting", !.code = 200]
    /\ UNCHANGED <<procs, api, efatura, bank, matches, nextId, sessions>>

InitRun ==
    /\ procs = [p \in Pids |-> Idle]
    /\ api = "main"
    /\ \E d \in Datasets : efatura = d.efatura /\ bank = d.bank
    /\ matches = {}
    /\ nextId = 1
    /\ threshold = "70"
    /\ sessions = << >>
    /\ lastOp = NoOp

NextRun ==
    \/ \E o \in RowOrders : RunAutoMatch(o)
    \/ \E t \in SettingTexts : UpdateSettingText(t)
    \/ \E e \in EIds, b \in BIds : CreateManualMatch(e, b)
    \/ \E m \in MIds : DeleteMatch(m)

\* backend/main.py with the stored setting text and the row order of its
\* queries, one request at a time
SpecRun == InitRun /\ [][NextRun]_vars

\* ---------------------------------------------- the scoring functions alone
\* the invoices handed to the scoring functions: with and without a supplier
\* name and a document number, of 100.00, of 0.00 and a credit of -100.00
ScoreEfaturaRows ==
    {[document_date |-> 0, total_amount |-> a, supplier_name |-> n, status |-> "unmatched",
      document_number |-> r, reference |-> r, invoice |-> r]
        : a \in {10000, 0, 0 - 10000}, n \in {"acme", ""}, r \in {"FT1", ""}}

\* the bank movements handed to them: the same day up to 40 days away, the same
\* amount, half a percent and two percent more, and an inflow
ScoreBankRows ==
    {[movement_date |-> d, amount |-> a, description |-> n, status |-> "unmatched",
      reference |-> r]
        : d \in {0, 2, 5, 20, 40}, a \in {0 - 10000, 10000, 0 - 10050, 0 - 10200},
          n \in {"acme FT1", "trf bolt", ""}, r \in {"pag FT1", ""}}

\* MatchingParameters with positive tolerances: the ends and the defaults of
\* date_tolerance_days (1..30) and amount_tolerance_percent (0.0001..0.1)
PositiveParams ==
    {[date_tolerance_days |-> d, amount_tolerance_bp |-> a,
      description_min_similarity |-> m, use_reference_matching |-> u]
        : d \in {1, 3, 30}, a \in {1, 100, 1000}, m \in {0, 70}, u \in BOOLEAN}

\* what a scoring function returned: score out of one
Scored(name, score, one) == [op |-> name, code |-> 200, score |-> score, one |-> one]

ScoreOps ==
    {"calculate_match_confidence_efatura", "calculate_match_confidence_bank",
     "matching_engine.calculate_match_score",
     "SimplifiedMatchingEngine.calculate_match_score", "matching.calculate_match_score"}

ScoreEfatura ==
    /\ api = "scoring"
    /\ lastOp' = Scored("calculate_match_confidence_efatura",
                        calculate_match_confidence_efatura(efatura[1], bank[1]), ConfScale)
    /\ UNCHANGED <<procs, api, efatura, bank, matches, nextId, threshold, sessions>>

ScoreBank ==
    /\ api = "scoring"
    /\ lastOp' = Scored("calculate_match_confidence_bank",
                        calculate_match_confidence_bank(bank[1], efatura[1]), ConfScale)
    /\ UNCHANGED <<procs, api, efatura, bank, matches, nextId, threshold, sessions>>

ScoreEngine(params) ==
    /\ api = "scoring"
    /\ ~calculate_match_score(efatura[1], bank[1], params).raises
    /\ lastOp' = Scored("matching_engine.calculate_match_score",
                        calculate_match_score(efatura[1], bank[1], params).score, ScoreOne)
    /\ UNCHANGED <<procs, api, efatura, bank, matches, nextId, threshold, sessions>>

ScoreSimplifiedEngine ==
    /\ api = "scoring"
    /\ lastOp' = Scored("SimplifiedMatchingEngine.calculate_match_score",
                        SimpleScore(efatura[1], bank[1]), 1000)
    /\ UNCHANGED <<procs, api, efatura, bank, matches, nextId, threshold, sessions>>

ScoreMatching ==
    /\ api = "scoring"
    /\ lastOp' = Scored("matching.calculate_match_score",
                        matching_calculate_match_score(efatura[1], bank[1]), 1000)
    /\ UNCHANGED <<procs, api, efatura, bank, matches, nextId, threshold, sessions>>

InitScore ==
    /\ procs = [p \in Pids |-> Idle]
    /\ api = "scoring"
    /\ \E e \in ScoreEfaturaRows, b \in ScoreBankRows : efatura = <<e>> /\ bank = <<b>>
    /\ matches = {}
    /\ nextId = 1
    /\ threshold = 70
    /\ sessions = << >>
    /\ lastOp = NoOp

NextScore ==
    \/ ScoreEfatura
    \/ ScoreBank
    \/ \E params \in PositiveParams : ScoreEngine(params)
    \/ ScoreSimplifiedEngine
    \/ ScoreMatching

\* every scoring function applied to every pair of the two sets of rows
SpecScore == InitScore /\ [][NextScore]_vars

\* ------------ backend/app simplified API: auto_match_all (sqlite_matching_engine.py)
\* uploads whose bank amounts carry the sign of the invoice amounts, two invoices
\* of 100.00 and two bank movements. In order: the same day and a day later, both
\* of 100.00; the same day of 100.80 and a day later of 100.00; the same day of
\* 100.50 and a day later of 100.00; and outflows written as negative amounts.
SimpleDatasets ==
    {[efatura |-> <<EfaturaRow(0, 10000, "acme"), EfaturaRow(0, 10000, "acme")>>,
      bank |-> <<BankRow(0, 10000, "acme"), BankRow(1, 10000, "acme")>>],
     [efatura |-> <<EfaturaRow(0, 10000, "acme"), EfaturaRow(40, 10000, "acme")>>,
      bank |-> <<BankRow(0, 10080, "acme"), BankRow(1, 10000, "acme")>>],
     [efatura |-> <<EfaturaRow(0, 10000, "acme"), EfaturaRow(40, 10000, "acme")>>,
      bank |-> <<BankRow(0, 10050, "acme"), BankRow(1, 10000, "acme")>>],
     [efatura |-> <<EfaturaRow(0, 10000, "acme"), EfaturaRow(0, 10000, "acme")>>,
      bank |-> <<BankRow(0, 0 - 10000, "acme"), BankRow(1, 0 - 10000, "acme")>>]}

\* LIMIT 10 of find_potential_matches
PotentialLimit == 10

\* bm.amount BETWEEN total_amount * (1 - tolerance) AND total_amount * (1 + tolerance)
InAmountRange(e, b) ==
    /\ 100 * b.amount >= (100 - SimpleAmountTolerancePct) * e.total_amount
    /\ 100 * b.amount <= (100 + SimpleAmountTolerancePct) * e.total_amount

\* ORDER BY date_diff ASC, amount_diff ASC over the bank movements S for invoice
\* row e; rows equal on both come in rowid order or in reverse
RECURSIVE OrderByDiffs(_, _, _, _)
OrderByDiffs(S, e, bk, ties) ==
    IF S = {} THEN << >>
    ELSE LET date_diff(b) == DaysDiff(e, bk[b])
             amount_diff(b) == Abs(bk[b].amount - e.total_amount)
             m == CHOOSE x \in S : \A y \in S :
                      \/ date_diff(x) < date_diff(y)
                      \/ date_diff(x) = date_diff(y) /\ amount_diff(x) < amount_diff(y)
                      \/ /\ date_diff(x) = date_diff(y)
                         /\ amount_diff(x) = amount_diff(y)
                         /\ (IF ties = "rowid" THEN x <= y ELSE x >= y)
         IN  <<m>> \o OrderByDiffs(S \ {m}, e, bk, ties)

\* a faulty query, which leaves out the test of the bank movement's status
find_potential_matches_AnyStatus(ef, bk, efatura_id, ties) ==
    LET row == ef[efatura_id]
        rows == OrderByDiffs({b \in DOMAIN bk :
                                 /\ DaysDiff(row, bk[b]) <= SimpleDateToleranceDays
                                 /\ InAmountRange(row, bk[b])},
                             row, bk, ties)
    IN  IF Len(rows) > PotentialLimit THEN SubSeq(rows, 1, PotentialLimit) ELSE rows

\* SimplifiedMatchingEngine.find_potential_matches
find_potential_matches(ef, bk, efatura_id, ties) ==
    LET row == ef[efatura_id]
        rows == OrderByDiffs({b \in DOMAIN bk :
                                 /\ DaysDiff(row, bk[b]) <= SimpleDateToleranceDays
                                 /\ InAmountRange(row, bk[b])
                                 /\ bk[b].status = "unmatched"},
                             row, bk, ties)
    IN  IF Len(rows) > PotentialLimit THEN SubSeq(rows, 1, PotentialLimit) ELSE rows

\* SimplifiedMatchingEngine.create_match on the accumulator of a run: the
\* INSERT and the two UPDATEs
SimpleCreateMatch(acc, e, b, score) ==
    [acc EXCEPT !.ms = @ \cup {SimpleMatchRow(acc.nid, e, b, score)},
                !.nid = @ + 1,
                !.ef = SetStatus(@, e, "matched"),
                !.bk = SetStatus(@, b, "matched"),
                !.created = @ \cup {<<e, b>>}]

\* the loop of auto_match_all from invoice i on; acc.potential keeps what
\* find_potential_matches returned, as (invoice, bank movement, score); an
\* INSERT refused by UNIQUE(efatura_id, bank_movement_id) ends the run
RECURSIVE AutoMatchAllLoop(_, _, _, _)
AutoMatchAllLoop(acc, unmatched_efaturas, ties, i) ==
    IF i > Len(unmatched_efaturas) \/ acc.failed THEN acc
    ELSE LET e == unmatched_efaturas[i]
             potential_matches == find_potential_matches(acc.ef, acc.bk, e, ties)
             seen == [acc EXCEPT !.potential = @ \cup
                         {<<e, potential_matches[k],
                            SimpleScore(acc.ef[e], acc.bk[potential_matches[k]])>>
                              : k \in DOMAIN potential_matches}]
             next(a) == AutoMatchAllLoop(a, unmatched_efaturas, ties, i + 1)
         IN  IF potential_matches = << >>
             THEN next([seen EXCEPT !.unmatched = @ \cup {e}])
             ELSE LET best == potential_matches[1]
                      score == SimpleScore(acc.ef[e], acc.bk[best])
                  IN  IF score >= 500
                      THEN IF UniqueViolation(acc.ms, e, best)
                           THEN [seen EXCEPT !.failed = TRUE]
                           ELSE next([SimpleCreateMatch(seen, e, best, score) EXCEPT
                                        !.matched = IF score >= 800 THEN @ + 1 ELSE @,
                                        !.suggested = IF score >= 800 THEN @ ELSE @ + 1])
                      ELSE next([seen EXCEPT !.unmatched = @ \cup {e}])

\* SimplifiedMatchingEngine.auto_match_all on the tables (ef, bk, ms)
auto_match_all(ef, bk, ms, nid, order, ties) ==
    LET unmatched_efaturas == SelectUnmatched(ef, order)
    IN  AutoMatchAllLoop([ef |-> ef, bk |-> bk, ms |-> ms, nid |-> nid,
                          total_processed |-> Len(unmatched_efaturas),
                          matched |-> 0, suggested |-> 0, unmatched |-> {},
                          created |-> {}, potential |-> {}, failed |-> FALSE],
                         unmatched_efaturas, ties, 1)

\* POST /auto-match of simple_matching.py
run_auto_matching(order, ties) ==
    /\ api = "simple"
    /\ LET r == auto_match_all(efatura, bank, matches, nextId, order, ties)
       IN  /\ r.nid <= MaxMatchId + 1
           /\ efatura' = r.ef
           /\ bank' = r.bk
           /\ matches' = r.ms
           /\ nextId' = r.nid
           /\ lastOp' = [op |-> "auto_match_all",
                         code |-> IF r.failed THEN 500 ELSE 200,
                         total_processed |-> r.total_processed,
                         matched |-> r.matched, suggested |-> r.suggested,
                         unmatched |-> r.unmatched, created |-> r.created,
                         potential |-> r.potential]
    /\ UNCHANGED <<procs, api, threshold, sessions>>

InitSimple ==
    /\ procs = [p \in Pids |-> Idle]
    /\ api = "simple"
    /\ \E d \in SimpleDatasets : efatura = d.efatura /\ bank = d.bank
    /\ matches = {}
    /\ nextId = 1
    /\ threshold = 70
    /\ sessions = << >>
    /\ lastOp = NoOp

NextSimpleApi ==
    \/ \E o \in RowOrders, t \in TieOrders : run_auto_matching(o, t)
    \/ \E e \in RequestIds, b \in RequestIds : SimpleCreateManualMatch(e, b)
    \/ \E m \in MIds : SimpleDeleteMatch(m)

\* the simplified SQLite API with its automatic run, one request at a time
SpecSimple == InitSimple /\ [][NextSimpleApi]_vars

\* ------------------------------------------------------------------ claims
Active(ms) == {r \in ms : r.status # "rejected"}

ActiveOnEfatura(e) == {r \in Active(matches) : r.efatura_id = e}
ActiveOnBank(b) == {r \in Active(matches) : r.bank_id = b}

\* C1: in the backend/main.py API every efatura id and every bank movement id
\* is referenced by at most one match row whose status is not 'rejected'.
C1_OneActiveMatchPerRecord ==
    api = "main" =>
        /\ \A e \in EIds : Cardinality(ActiveOnEfatura(e)) <= 1
        /\ \A b \in BIds : Cardinality(ActiveOnBank(b)) <= 1

\* C2: the pairs created by one invocation of run_auto_match, both passes
\* together, are one-to-one: no invoice is paired with two bank movements and
\* no bank movement with two invoices.
C2_RunPairsOneToOne ==
    lastOp.op = "run_auto_match" =>
        \A p \in lastOp.created : \A q \in lastOp.created :
            p # q => p[1] # q[1] /\ p[2] # q[2]

\* C3: in the backend/main.py API a record has status 'unmatched' exactly when
\* no match row with a status other than 'rejected' references it.
C3_StatusIsDerived ==
    api = "main" =>
        /\ \A e \in EIds : efatura[e].status = "unmatched" <=> ActiveOnEfatura(e) = {}
        /\ \A b \in BIds : bank[b].status = "unmatched" <=> ActiveOnBank(b) = {}

StatusUpdateOps ==
    {"update_match_status", "confirm_matching_result", "reject_matching_result"}

\* C4: once a match is 'confirmed' or 'rejected', no later status-update call
\* changes its status or the statuses of its two linked records.
C4_ResolvedIsTerminal ==
    [][lastOp'.op \in StatusUpdateOps =>
         \A r \in matches : r.status \in {"confirmed", "rejected"} =>
             /\ \E r2 \in matches' : r2.id = r.id /\ r2.status = r.status
             /\ efatura'[r.efatura_id].status = efatura[r.efatura_id].status
             /\ bank'[r.bank_id].status = bank[r.bank_id].status]_vars

\* C5: rejecting a match that is 'proposed' or 'confirmed' sets both linked
\* records to 'unmatched', and both are in the unmatched sets that an automatic
\* run started next reads.
C5_RejectFreesBoth ==
    [][\A m \in MIds :
         (UpdateMatchStatus(m, "rejected") \/ RejectMatchingResult(m)) =>
             \A r \in matches : (r.id = m /\ r.status \in {"proposed", "confirmed"}) =>
                 /\ efatura'[r.efatura_id].status = "unmatched"
                 /\ bank'[r.bank_id].status = "unmatched"
                 /\ r.efatura_id \in
                        run_auto_match(efatura', bank', matches', nextId', threshold').read_efatura
                 /\ r.bank_id \in
                        run_auto_match(efatura', bank', matches', nextId', threshold').read_bank
                 /\ r.efatura_id \in Range(SeqOfSet(Unmatched(efatura')))
                 /\ r.bank_id \in Range(SeqOfSet(Unmatched(bank')))]_vars

\* C5 witness: a run that followed a rejection paired the invoice of the
\* rejected match with a different bank movement.
C5_Witness ==
    /\ lastOp.op \in {"run_auto_match", "run_matching_process"}
    /\ \E r \in matches : \E r2 \in matches :
          /\ r.status = "rejected"
          /\ r2.id > r.id
          /\ r2.efatura_id = r.efatura_id
          /\ r2.bank_id # r.bank_id
          /\ <<r2.efatura_id, r2.bank_id>> \in lastOp.created

\* C6: create_manual_match (of backend/main.py and of simple_matching.py)
\* succeeds only when both records are 'unmatched'; when either is missing or
\* not 'unmatched' it fails with an error, creates no match row and changes no
\* record status.
C6_ManualMatchNeedsUnmatched ==
    [][\A e \in RequestIds : \A b \in RequestIds :
         (CreateManualMatch(e, b) \/ SimpleCreateManualMatch(e, b)) =>
             /\ lastOp'.code = 200 =>
                    e \in Unmatched(efatura) /\ b \in Unmatched(bank)
             /\ (e \notin Unmatched(efatura) \/ b \notin Unmatched(bank)) =>
                    /\ lastOp'.code \in {400, 404}
                    /\ matches' = matches
                    /\ efatura' = efatura
                    /\ bank' = bank]_vars

\* C6 witness: a manual match was refused with 404 although a match row exists
\* (one of the named records is already matched or unknown).
C6_Witness ==
    /\ lastOp.op = "create_manual_match"
    /\ lastOp.code = 404
    /\ \E r \in matches : r.run = "manual"

\* C9: a run_auto_match that directly follows another run_auto_match creates
\* no match.
C9_SecondRunCreatesNothing ==
    [][lastOp.op = "run_auto_match" /\ lastOp'.op = "run_auto_match" =>
         lastOp'.matches_found = 0]_vars

\* C10: an invoice with two or more equally eligible bank movements gets no
\* match from a complete run and is reported in skipped_multiple_matches.
C10_TiedInvoiceIsSkipped ==
    lastOp.op = "run_auto_match" =>
        \A e \in lastOp.ambiguous :
            /\ lastOp.skipped_multiple_matches >= 1
            /\ \A p \in lastOp.created : p[1] # e

\* C7: when two match-creating requests of backend/main.py overlap, no invoice
\* and no bank movement is referenced by active matches of both requests: at
\* most one of the two requests gets the record.
C7_OverlappingCreatorsExclude ==
    \A r1 \in Active(matches) : \A r2 \in Active(matches) :
        r1.run # r2.run =>
            r1.efatura_id # r2.efatura_id /\ r1.bank_id # r2.bank_id

\* C8: matching sessions of one organisation are serialized: no invoice and no
\* bank movement is referenced by proposed matching results of two sessions.
C8_SessionsAreSerialized ==
    \A r1 \in matches : \A r2 \in matches :
        (r1.status = "proposed" /\ r2.status = "proposed" /\ r1.run # r2.run) =>
            r1.efatura_id # r2.efatura_id /\ r1.bank_id # r2.bank_id

\* C11: in the backend/main.py API every match row whose status is 'proposed'
\* or 'confirmed', created by run_auto_match or by create_manual_match, links an
\* invoice and a bank movement whose amounts differ by at most the amount
\* tolerance: the larger of 0.01 and 1% of the invoice total.
C11_ActiveMatchesWithinAmountTolerance ==
    api = "main" =>
        \A r \in matches : r.status \in {"proposed", "confirmed"} =>
            LET e == efatura[r.efatura_id]
                percent == e.total_amount \div 100
            IN  AmountDiff(e, bank[r.bank_id]) <= (IF percent > 1 THEN percent ELSE 1)

\* C12: run_matching_process never matches an invoice with a bank movement
\* whose absolute amount differs from the invoice total by more than
\* amount_tolerance_percent x invoice total, whatever its date and description.
C12_OutsideToleranceNeverMatched ==
    lastOp.op = "run_matching_process" =>
        \A p \in lastOp.created :
            calculate_match_score(efatura[p[1]], bank[p[2]], DefaultParams).amount_matched

\* C13: every match created by a run of run_auto_match, in either pass, has a
\* confidence score of at least the configured minimum, the confidence_threshold
\* setting divided by 100.
C13_RunMatchesReachThreshold ==
    lastOp.op = "run_auto_match" =>
        \A r \in matches :
            <<r.efatura_id, r.bank_id>> \in lastOp.created =>
                AtLeast(r.confidence_score, threshold)

\* C14: the INSERT of a match and the two status UPDATEs of an automatic run are
\* one unit: wherever the run stops between two persistence writes, every match
\* row it has written links two records whose status is not 'unmatched'.
C14_MatchAndStatusesAreOneUnit ==
    \A p \in Pids : procs[p].kind = "auto" =>
        \A r \in matches : r.run = p =>
            /\ efatura[r.efatura_id].status # "unmatched"
            /\ bank[r.bank_id].status # "unmatched"

\* C15: match rows are append-only: no operation removes a match row once it
\* is written, so every match id present before a step is present after it.
C15_MatchRowsAreAppendOnly ==
    [][\A r \in matches : \E r2 \in matches' : r2.id = r.id]_vars

\* C16: every match created by a manual-match request has confidence score
\* exactly 1.0 and, where the table records how the match was made, the tag
\* 'manual', whatever the amounts, dates and descriptions of the two records.
C16_ManualMatchIsFixed ==
    [][\A e \in RequestIds : \A b \in RequestIds :
         /\ CreateManualMatch(e, b) =>
                \A r \in matches' \ matches : r.confidence_score = ConfScale
         /\ SimpleCreateManualMatch(e, b) =>
                \A r \in matches' \ matches :
                    r.confidence_score = 1000 /\ r.status = "manual"]_vars

\* C17: every match created by an automatic run is tagged 'automatic' exactly
\* when its score is at least the auto-match threshold 0.8, and 'suggested'
\* otherwise (run_automatic_matching of app/matching.py).
C17_TagFollowsAutoMatchThreshold ==
    lastOp.op = "run_automatic_matching" =>
        \A r \in matches :
            <<r.efatura_id, r.bank_id>> \in lastOp.created =>
                /\ r.match_type \in {"automatic", "suggested"}
                /\ r.match_type = "automatic" <=> r.confidence_score >= 800

\* C18: when the persistence write for one pair fails during an automatic run,
\* the pair is reported as failed and the run goes on to process all remaining
\* invoices: it visits every invoice it read (run_automatic_matching).
C18_WriteFailureDoesNotAbortRun ==
    (lastOp.op = "run_automatic_matching" /\ lastOp.errors # {}) =>
        lastOp.visited = lastOp.efatura_processed

\* C19: every matching session created with status 'running' eventually leaves
\* 'running': run_matching_process ends by setting it to 'completed' or to
\* 'failed', also when the scoring of a record raises.
C19_SessionLeavesRunning ==
    \A n \in 1..MaxSessions :
        (Len(sessions) >= n /\ sessions[n] = "running")
            ~> (Len(sessions) >= n /\ sessions[n] \in {"completed", "failed"})

\* C19 witness: one session ended 'failed' through the handler and another one
\* ended 'completed'.
C19_Witness ==
    /\ \A p \in Pids : procs[p].pc = "done"
    /\ \E n \in DOMAIN sessions : sessions[n] = "failed"
    /\ \E n \in DOMAIN sessions : sessions[n] = "completed"

\* C20: while a match is 'confirmed', no automatic run creates another match
\* that references its invoice or its bank movement.
C20_ConfirmedRecordsAreNotRevisited ==
    [][(AutoMatch \/ StartMatchingSession(DefaultParams)) =>
         \A r \in matches : r.status = "confirmed" =>
             \A n \in matches' \ matches :
                 n.efatura_id # r.efatura_id /\ n.bank_id # r.bank_id]_vars

\* C21: a run of run_auto_match never creates a match that references a record
\* whose status was not 'unmatched' when the run read it, never changes the
\* status of such a record, and never modifies or removes an existing match row.
C21_RunLeavesMatchedRecordsAlone ==
    [][(\E o \in RowOrders : RunAutoMatch(o)) =>
         /\ \A n \in matches' \ matches :
                n.efatura_id \in Unmatched(efatura) /\ n.bank_id \in Unmatched(bank)
         /\ \A e \in EIds : e \notin Unmatched(efatura) => efatura'[e] = efatura[e]
         /\ \A b \in BIds : b \notin Unmatched(bank) => bank'[b] = bank[b]
         /\ matches \subseteq matches']_vars

\* C21 witness: a run created a match while a manual match made before it is
\* still in place, its two records still 'matched' and not read by the run.
C21_Witness ==
    /\ lastOp.op = "auto_match"
    /\ lastOp.matches_found >= 1
    /\ \E r \in matches :
          /\ r.run = "manual"
          /\ r.status = "confirmed"
          /\ efatura[r.efatura_id].status = "matched"
          /\ bank[r.bank_id].status = "matched"
          /\ r.efatura_id \notin lastOp.read_efatura
          /\ r.bank_id \notin lastOp.read_bank
          /\ \E n \in matches : n.id > r.id /\ <<n.efatura_id, n.bank_id>> \in lastOp.created

\* C22: for an invoice and a bank movement of the same day and the same amount,
\* the description containing the supplier name and no reference match, the
\* weighted-sum scorer returns 1.0 and the run creates the match as 'proposed'
\* with the highest-confidence method tag.
C22_ExactPairScoresOne ==
    lastOp.op = "run_matching_process" =>
        \A r \in matches :
            ( /\ <<r.efatura_id, r.bank_id>> \in lastOp.created
              /\ DaysDiff(efatura[r.efatura_id], bank[r.bank_id]) = 0
              /\ AmountDiff(efatura[r.efatura_id], bank[r.bank_id]) = 0
              /\ PartialRatio(efatura[r.efatura_id].supplier_name,
                              bank[r.bank_id].description) = 100 )
            => /\ r.confidence_score = ScoreOne
               /\ r.status = "proposed"
               /\ matching_method(r.confidence_score) = "exact"

\* C23: the set of pairs a run of run_auto_match matches is the same whatever
\* order the persistence layer returns the unmatched invoices and the
\* unmatched bank movements in.
C23_RunIsOrderIndependent ==
    [][\A o \in RowOrders :
         (RunAutoMatch(o) /\ ~FloatRaises(threshold)) =>
             \A o2 \in RowOrders :
                 run_auto_match_rows(efatura, bank, matches, nextId,
                                     Float(threshold), o2).acc.created = lastOp'.created]_vars

\* C24: for every pair and every configuration with positive tolerances, each
\* scoring function (calculate_match_score of app/matching.py, of
\* services/matching_engine.py and of SimplifiedMatchingEngine, and the two
\* calculate_match_confidence functions of backend/main.py) returns a score in
\* the closed range [0, 1].
C24_ScoresWithinZeroOne ==
    lastOp.op \in ScoreOps => (0 <= lastOp.score /\ lastOp.score <= lastOp.one)

\* C24 witness: the scorer of app/matching.py returned exactly 1.0 for a pair
\* that earns every term and the bonus for the invoice number.
C24_Witness ==
    /\ lastOp.op = "matching.calculate_match_score"
    /\ lastOp.score = lastOp.one
    /\ efatura[1].invoice # ""
    /\ Contains(bank[1].description, efatura[1].invoice)
    /\ DaysDiff(efatura[1], bank[1]) = 0
    /\ PartialRatio(efatura[1].supplier_name, bank[1].description) = 100

\* C25: a run never starts with an out-of-range configuration: with a stored
\* confidence threshold that is not a number or is outside 0..100 percent the
\* run is rejected with an error before it reads any record, and it writes no
\* match.
C25_OutOfRangeRunIsRejected ==
    ( /\ lastOp.op = "auto_match"
      /\ (FloatRaises(threshold) \/ Float(threshold) \notin 0..100) )
    => /\ lastOp.code >= 400
       /\ lastOp.read_efatura = {}
       /\ lastOp.read_bank = {}
       /\ lastOp.created = {}

\* C26: in the simplified SQLite API (auto_match_all, create_manual_match and
\* delete_match, one operation at a time from a state with no matches) a record
\* has status 'matched' if and only if exactly one row of the matches table
\* references it, and status 'unmatched' if and only if no row references it.
C26_StatusCountsMatchRows ==
    /\ \A e \in DOMAIN efatura :
          LET n == Cardinality({r \in matches : r.efatura_id = e})
          IN  /\ efatura[e].status = "matched" <=> n = 1
              /\ efatura[e].status = "unmatched" <=> n = 0
    /\ \A b \in DOMAIN bank :
          LET n == Cardinality({r \in matches : r.bank_id = b})
          IN  /\ bank[b].status = "matched" <=> n = 1
              /\ bank[b].status = "unmatched" <=> n = 0

\* C26 witness: an automatic run has just matched one invoice and left the
\* other unmatched, after an earlier match was deleted.
C26_Witness ==
    /\ lastOp.op = "auto_match_all"
    /\ lastOp.created # {}
    /\ nextId > Cardinality(matches) + 1
    /\ \E e \in DOMAIN efatura : efatura[e].status = "matched"
    /\ \E e \in DOMAIN efatura : efatura[e].status = "unmatched"

\* C27: the summary returned by run_auto_match agrees with the stored state:
\* efatura_unmatched is the number of invoices read by the run that still have
\* status 'unmatched' when it returns, bank_unmatched the same count for bank
\* movements, and matches_found the number of match rows the run inserted.
C27_SummaryAgreesWithState ==
    (lastOp.op = "auto_match" /\ lastOp.code = 200) =>
        /\ lastOp.efatura_unmatched =
               Cardinality({e \in lastOp.read_efatura : efatura[e].status = "unmatched"})
        /\ lastOp.bank_unmatched =
               Cardinality({b \in lastOp.read_bank : bank[b].status = "unmatched"})
        /\ lastOp.matches_found = Cardinality(lastOp.created)

\* C28: auto_match_all counts an invoice as unmatched only when none of the bank
\* movements find_potential_matches returned for it scores at least 0.5;
\* whenever some potential match scores at least 0.5 a match is created for the
\* invoice, and it is with the highest-scoring potential match.
C28_BestPotentialMatchIsTaken ==
    (lastOp.op = "auto_match_all" /\ lastOp.code = 200) =>
        /\ \A e \in lastOp.unmatched :
               \A t \in lastOp.potential : t[1] = e => t[3] < 500
        /\ \A t \in lastOp.potential :
               t[3] >= 500 => \E c \in lastOp.created : c[1] = t[1]
        /\ \A c \in lastOp.created :
               \A t, u \in lastOp.potential :
                   (t[1] = c[1] /\ t[2] = c[2] /\ u[1] = c[1]) => u[3] <= t[3]

\* C29: for every configuration MatchingParameters accepts, the boundary
\* date_tolerance_days = 0 included, run_matching_process scores every pair
\* without raising and ends with the session status 'completed', not 'failed'.
C29_AcceptedParamsEndCompleted ==
    \A p \in Pids :
        (procs[p].kind = "session" /\ procs[p].pc = "done") =>
            sessions[procs[p].session] = "completed"

\* C30: in the simplified app, after a match created by a run has been set to
\* 'rejected' through update_match_status, the next run_automatic_matching
\* finishes with an empty errors list and evaluates every unmatched invoice.
C30_RunAfterRejectionIsClean ==
    ( /\ lastOp.op = "run_automatic_matching"
      /\ \E r \in matches : r.status = "rejected" )
    => /\ lastOp.errors = {}
       /\ lastOp.visited = lastOp.efatura_processed

====
